---- MODULE Spec2Model ----
(***************************************************************************)
(* The parameter-binding encoders of snowflake-api (bindings.rs) and the   *)
(* binding assembler (requests.rs).  Buffers and texts are sequences of    *)
(* bytes (0..255); a Rust str is a sequence of code points that write_str  *)
(* encodes as UTF-8; integers are two's-complement byte sequences (most    *)
(* significant byte first), so that 64-bit values keep their width.        *)
(***************************************************************************)
EXTENDS Integers, Sequences, FiniteSets, TLC

(* ------------------------------ bounds --------------------------------- *)

\* nesting depth of wrappers (Option / Variant / Box / &) around a core value
MaxDepth == 2
\* nesting depth of wrappers around the values the two assembler calls get
AsmDepth == 1

(* ------------------------------ helpers -------------------------------- *)

RECURSIVE Flatten(_)
Flatten(ss) ==
    IF ss = <<>> THEN <<>> ELSE Head(ss) \o Flatten(Tail(ss))

Fill(n, b) == [i \in 1..n |-> b]

\* Option<T> as a sequence of at most one element
NoneOpt == <<>>
SomeOpt(x) == <<x>>

IsDigit(b) == b >= 48 /\ b <= 57

(* ------------------------------ UTF-8 ---------------------------------- *)

\* char::encode_utf8, as used by BytesMut's write_char / write_str
encode_utf8(c) ==
    IF c < 128 THEN <<c>>
    ELSE IF c < 2048 THEN <<192 + (c \div 64), 128 + (c % 64)>>
    ELSE IF c < 65536
         THEN <<224 + (c \div 4096), 128 + ((c \div 64) % 64), 128 + (c % 64)>>
         ELSE <<240 + (c \div 262144), 128 + ((c \div 4096) % 64),
                128 + ((c \div 64) % 64), 128 + (c % 64)>>

\* <BytesMut as fmt::Write>::write_str: the str's UTF-8 bytes are appended
write_str(out, s) == out \o Flatten([i \in 1..Len(s) |-> encode_utf8(s[i])])

\* <BytesMut as fmt::Write>::write_char
write_char(out, c) == out \o encode_utf8(c)

InRange(b, lo, hi) == b >= lo /\ b <= hi

\* core::str::from_utf8's validation (run_utf8_validation)
RECURSIVE utf8_valid(_)
utf8_valid(bs) ==
    IF bs = <<>> THEN TRUE
    ELSE LET b1 == bs[1]
             n == Len(bs)
             rest(k) == SubSeq(bs, k + 1, n)
         IN  IF b1 < 128 THEN utf8_valid(rest(1))
             ELSE IF InRange(b1, 194, 223)
                  THEN n >= 2 /\ InRange(bs[2], 128, 191) /\ utf8_valid(rest(2))
             ELSE IF InRange(b1, 224, 239)
                  THEN /\ n >= 3
                       /\ \/ b1 = 224 /\ InRange(bs[2], 160, 191)
                          \/ InRange(b1, 225, 236) /\ InRange(bs[2], 128, 191)
                          \/ b1 = 237 /\ InRange(bs[2], 128, 159)
                          \/ InRange(b1, 238, 239) /\ InRange(bs[2], 128, 191)
                       /\ InRange(bs[3], 128, 191)
                       /\ utf8_valid(rest(3))
             ELSE IF InRange(b1, 240, 244)
                  THEN /\ n >= 4
                       /\ \/ b1 = 240 /\ InRange(bs[2], 144, 191)
                          \/ InRange(b1, 241, 243) /\ InRange(bs[2], 128, 191)
                          \/ b1 = 244 /\ InRange(bs[2], 128, 143)
                       /\ InRange(bs[3], 128, 191)
                       /\ InRange(bs[4], 128, 191)
                       /\ utf8_valid(rest(4))
             ELSE FALSE

\* String::from_utf8 always repairing its input (what from_utf8_lossy would do)
String_from_utf8_lossy(bs) ==
    [ok |-> TRUE, text |-> IF utf8_valid(bs) THEN bs ELSE <<239, 191, 189>>]

\* String::from_utf8(vec): Ok(String) holding the same bytes, or FromUtf8Error
String_from_utf8(bs) ==
    IF utf8_valid(bs) THEN [ok |-> TRUE, text |-> bs]
                      ELSE [ok |-> FALSE, text |-> <<>>]

(* --------------------------- integer to text --------------------------- *)

IntKinds == {"i8", "u8", "i16", "u16", "i32", "u32", "i64", "u64"}

Signed(ty) == ty \in {"i8", "i16", "i32", "i64"}

\* size of the kind in bytes
Width(ty) ==
    CASE ty \in {"i8", "u8"} -> 1
      [] ty \in {"i16", "u16"} -> 2
      [] ty \in {"i32", "u32"} -> 4
      [] ty \in {"i64", "u64"} -> 8

IsZero(bits) == \A i \in 1..Len(bits) : bits[i] = 0

\* *self >= 0 for the signed kinds: the sign bit of the top byte
IsNonNegative(ty, bits) == ~(Signed(ty) /\ bits[1] >= 128)

\* n + 1 on the bit pattern, wrapping (wrapping_add(1))
RECURSIVE WrappingInc(_)
WrappingInc(bits) ==
    IF bits = <<>> THEN <<>>
    ELSE LET n == Len(bits)
         IN  IF bits[n] < 255
             THEN SubSeq(bits, 1, n - 1) \o <<bits[n] + 1>>
             ELSE WrappingInc(SubSeq(bits, 1, n - 1)) \o <<0>>

\* (!n).wrapping_add(1): the magnitude of a negative value, as unsigned
Magnitude(bits) == WrappingInc([i \in 1..Len(bits) |-> 255 - bits[i]])

\* n / 10 and n % 10 of an unsigned bit pattern (long division, top byte first)
RECURSIVE DivRem10(_, _)
DivRem10(bits, carry) ==
    IF bits = <<>> THEN [q |-> <<>>, r |-> carry]
    ELSE LET cur == carry * 256 + bits[1]
             rec == DivRem10(Tail(bits), cur % 10)
         IN  [q |-> <<cur \div 10>> \o rec.q, r |-> rec.r]

\* the decimal digits of a non-zero unsigned value; <<>> for zero
RECURSIVE Digits(_)
Digits(bits) ==
    IF IsZero(bits) THEN <<>>
    ELSE LET d == DivRem10(bits, 0)
         IN  Digits(d.q) \o <<48 + d.r>>

\* a rendering that drops the sign of negative values
int_to_string_unsigned(ty, bits) ==
    IF IsZero(bits) THEN <<48>> ELSE Digits(bits)

\* <iN/uN as Display>::fmt via to_string(): sign, then the magnitude's digits
int_to_string(ty, bits) ==
    IF IsNonNegative(ty, bits)
    THEN IF IsZero(bits) THEN <<48>> ELSE Digits(bits)
    ELSE <<45>> \o Digits(Magnitude(bits))

(* ------------------------- chrono formatting --------------------------- *)

Pad2(n) == <<48 + ((n \div 10) % 10), 48 + (n % 10)>>

Pad3(n) == <<48 + ((n \div 100) % 10)>> \o Pad2(n)

Pad4(n) == <<48 + ((n \div 1000) % 10)>> \o Pad3(n)

RECURSIVE NatDigits(_)
NatDigits(n) == IF n < 10 THEN <<48 + n>> ELSE NatDigits(n \div 10) \o <<48 + (n % 10)>>

\* one item of a chrono strftime string applied to a date / time value
FormatItem(dt, item) ==
    CASE item = "%Y" -> IF dt.year >= 0 /\ dt.year <= 9999
                        THEN Pad4(dt.year)
                        ELSE (IF dt.year < 0 THEN <<45>> ELSE <<43>>)
                             \o (LET a == IF dt.year < 0 THEN -dt.year ELSE dt.year
                                 IN  IF a < 1000 THEN Pad4(a) ELSE NatDigits(a))
      [] item = "%m" -> Pad2(dt.month)
      [] item = "%d" -> Pad2(dt.day)
      [] item = "%H" -> Pad2(dt.hour)
      [] item = "%M" -> Pad2(dt.minute)
      [] item = "%S" -> Pad2(dt.second)
      \* Nanosecond3: a dot followed by the milliseconds, three digits
      [] item = "%.3f" -> <<46>> \o Pad3((dt.nano % 1000000000) \div 1000000)
      \* offset from UTC as +HHMM / -HHMM (offsets are whole minutes)
      [] item = "%z" -> LET off == IF dt.offset < 0 THEN -dt.offset ELSE dt.offset
                        IN  (IF dt.offset < 0 THEN <<45>> ELSE <<43>>)
                            \o Pad2(off \div 3600) \o Pad2((off \div 60) % 60)
      [] item = "-" -> <<45>>
      [] item = " " -> <<32>>
      [] item = ":" -> <<58>>
      [] item = "." -> <<46>>

\* value.format(fmt).to_string()
format(dt, items) == Flatten([i \in 1..Len(items) |-> FormatItem(dt, items[i])])

\* the format strings handed to date_time_impl!
NaiveDateFormat == <<"%Y", "-", "%m", "-", "%d">>

TimestampFormat ==
    <<"%Y", "-", "%m", "-", "%d", " ", "%H", ":", "%M", ":", "%S", ".", "%.3f">>

TimestampTzFormat == TimestampFormat \o <<" ", "%z">>

DateKinds ==
    {"NaiveDate", "NaiveDateTime", "DateTimeLocal", "DateTimeFixedOffset", "DateTimeUtc"}

format_str(k) ==
    CASE k = "NaiveDate" -> NaiveDateFormat
      [] k \in {"NaiveDateTime", "DateTimeLocal"} -> TimestampFormat
      [] k \in {"DateTimeFixedOffset", "DateTimeUtc"} -> TimestampTzFormat

date_sql_type(k) ==
    CASE k = "NaiveDate" -> "Text"
      [] k = "NaiveDateTime" -> "TimestampNtz"
      [] k = "DateTimeLocal" -> "TimestampLtz"
      [] k \in {"DateTimeFixedOffset", "DateTimeUtc"} -> "TimestampTz"

(* ------------------------------ serde_json ----------------------------- *)

HexDigit(n) == IF n < 10 THEN 48 + n ELSE 87 + n

\* serde_json's string escaping of one char
json_escape(c) ==
    CASE c = 34 -> <<92, 34>>
      [] c = 92 -> <<92, 92>>
      [] c = 8 -> <<92, 98>>
      [] c = 9 -> <<92, 116>>
      [] c = 10 -> <<92, 110>>
      [] c = 12 -> <<92, 102>>
      [] c = 13 -> <<92, 114>>
      [] c < 32 /\ c \notin {8, 9, 10, 12, 13} ->
            <<92, 117, 48, 48, HexDigit(c \div 16), HexDigit(c % 16)>>
      [] OTHER -> encode_utf8(c)

json_string(chars) ==
    <<34>> \o Flatten([i \in 1..Len(chars) |-> json_escape(chars[i])]) \o <<34>>

\* a scalar of the serialized value: (), bool, u8 or String
json_scalar(x) ==
    CASE x.t = "unit" -> <<110, 117, 108, 108>>
      [] x.t = "bool" -> IF x.b THEN <<116, 114, 117, 101>>
                                ELSE <<102, 97, 108, 115, 101>>
      [] x.t = "u8" -> NatDigits(x.n)
      [] x.t = "str" -> json_string(x.chars)

\* a map key: strings as they are, integers quoted, anything else is rejected
\* ("key must be a string")
json_key_ok(x) == x.t \in {"str", "u8"}

json_key(x) == IF x.t = "u8" THEN <<34>> \o NatDigits(x.n) \o <<34>>
                             ELSE json_string(x.chars)

\* the entries of a map from entry i on, written until a key is rejected
RECURSIVE json_entries(_, _)
json_entries(es, i) ==
    IF i > Len(es) THEN [ok |-> TRUE, bytes |-> <<125>>]
    ELSE IF ~json_key_ok(es[i][1])
         THEN [ok |-> FALSE, bytes |-> IF i > 1 THEN <<44>> ELSE <<>>]
    ELSE LET rec == json_entries(es, i + 1)
         IN  [ok |-> rec.ok,
              bytes |-> (IF i > 1 THEN <<44>> ELSE <<>>) \o json_key(es[i][1])
                        \o <<58>> \o json_scalar(es[i][2]) \o rec.bytes]

\* serde_json::to_writer(writer, &value): the bytes it writes, and whether it
\* returns Ok; a failing serialization leaves what it had written
serde_json_to_writer(x) ==
    IF x.t = "map"
    THEN LET r == json_entries(x.entries, 1)
         IN  [ok |-> r.ok, bytes |-> <<123>> \o r.bytes]
    ELSE [ok |-> TRUE, bytes |-> json_scalar(x)]

(* --------------------------- the ToSql trait --------------------------- *)

\* Result<Option<()>, BindingError> together with the buffer after the call
Written(out) == [res |-> "Some", err |-> "", out |-> out]

Absent(out) == [res |-> "None", err |-> "", out |-> out]

Failed(e, out) == [res |-> "Err", err |-> e, out |-> out]

RECURSIVE sql_type(_)
RECURSIVE to_sql(_, _)
RECURSIVE encode_format(_)

\* default_encode!()
default_encode == ""

\* impl ToSql for String
String_to_sql(v, out) == Written(write_str(out, v.s))

\* impl ToSql for &str
str_to_sql(v, out) == Written(write_str(out, v.s))

\* impl ToSql for char
char_to_sql(v, out) == Written(write_char(out, v.c))

\* serializable_impl! for the integer kinds; the digits are ASCII
int_to_sql(v, out) == Written(out \o int_to_string(v.ty, v.bits))

\* date_time_impl!
date_to_sql(v, out) == Written(out \o format(v, format_str(v.k)))

\* impl ToSql for &T and for Box<T>: plain forwarding
Ref_to_sql(v, out) == to_sql(v.boxed, out)

Box_to_sql(v, out) == to_sql(v.boxed, out)

\* impl ToSql for Box<dyn ToSql>, applied to the boxed value
BoxDyn_sql_type(inner) == sql_type(inner)

BoxDyn_to_sql(inner, out) == to_sql(inner, out)

BoxDyn_encode_format(inner) == encode_format(inner)

\* a Variant that reports the tag of what it wraps
Variant_sql_type_inner(v) == sql_type(v.boxed)

\* impl ToSql for Variant
Variant_sql_type(v) == "Variant"

Variant_encode_format(v) == BoxDyn_encode_format(v.boxed)

Variant_to_sql(v, out) == BoxDyn_to_sql(v.boxed, out)

\* an Object without a format hint
Object_encode_format_default(v) == default_encode

\* impl ToSql for Object<T>
Object_sql_type(v) == "Object"

Object_to_sql(v, out) ==
    LET r == serde_json_to_writer(v.inner)
    IN  IF r.ok THEN Written(out \o r.bytes)
                ELSE Failed("SerialisationError", out \o r.bytes)

Object_encode_format(v) == "json"

\* an Option that hands back whatever the inner to_sql returned
Option_to_sql_passthrough(v, out) ==
    IF v.opt = <<>> THEN Absent(out) ELSE to_sql(v.opt[1], out)

\* an Option that writes the text NULL for None
Option_to_sql_null(v, out) ==
    IF v.opt = <<>> THEN Absent(out \o <<78, 85, 76, 76>>)
    ELSE LET r == to_sql(v.opt[1], out)
         IN  IF r.res = "Err" THEN r ELSE Written(r.out)

\* impl ToSql for Option<T>
Option_sql_type(v) ==
    IF v.opt = <<>> THEN "UnknownNull" ELSE sql_type(v.opt[1])

Option_to_sql(v, out) ==
    IF v.opt = <<>> THEN Absent(out)
    ELSE LET r == to_sql(v.opt[1], out)
         IN  IF r.res = "Err" THEN r ELSE Written(r.out)

Option_encode_format(v) ==
    IF v.opt = <<>> THEN "" ELSE encode_format(v.opt[1])

\* an implementer of the trait outside the crate: it reports v.tag and v.hint,
\* writes v.emits and returns v.ret (Some, None or a BindingError)
Custom_to_sql(v, out) ==
    IF v.ret = "Some" THEN Written(out \o v.emits)
    ELSE IF v.ret = "None" THEN Absent(out \o v.emits)
    ELSE Failed(v.ret, out \o v.emits)

\* dynamic dispatch on the value's concrete type
sql_type(v) ==
    CASE v.k \in {"String", "str", "char"} -> "Text"
      [] v.k = "int" -> "Fixed"
      [] v.k \in DateKinds -> date_sql_type(v.k)
      [] v.k \in {"Ref", "Box"} -> sql_type(v.boxed)
      [] v.k = "Variant" -> Variant_sql_type(v)
      [] v.k = "Object" -> Object_sql_type(v)
      [] v.k = "Option" -> Option_sql_type(v)
      [] v.k = "Custom" -> v.tag

to_sql(v, out) ==
    CASE v.k = "String" -> String_to_sql(v, out)
      [] v.k = "str" -> str_to_sql(v, out)
      [] v.k = "char" -> char_to_sql(v, out)
      [] v.k = "int" -> int_to_sql(v, out)
      [] v.k \in DateKinds -> date_to_sql(v, out)
      [] v.k = "Ref" -> Ref_to_sql(v, out)
      [] v.k = "Box" -> Box_to_sql(v, out)
      [] v.k = "Variant" -> Variant_to_sql(v, out)
      [] v.k = "Object" -> Object_to_sql(v, out)
      [] v.k = "Option" -> Option_to_sql(v, out)
      [] v.k = "Custom" -> Custom_to_sql(v, out)

encode_format(v) ==
    CASE v.k \in {"String", "str", "char", "int"} \cup DateKinds -> default_encode
      [] v.k \in {"Ref", "Box"} -> encode_format(v.boxed)
      [] v.k = "Variant" -> Variant_encode_format(v)
      [] v.k = "Object" -> Object_encode_format(v)
      [] v.k = "Option" -> Option_encode_format(v)
      [] v.k = "Custom" -> v.hint

(* ------------------------- the binding assembler ----------------------- *)

SingleBind(text) == [variant |-> "SingleBind", text |-> text]

OkBinding(ty, f, val) == [ok |-> TRUE, type_ |-> ty, fmt |-> f, value |-> val]

ErrBinding(e) == [ok |-> FALSE, error |-> e]

\* BytesMut::new()
BytesMut_new == <<>>

\* ParameterBinding::try_from(value), one whole call
try_from(value) ==
    LET r == BoxDyn_to_sql(value, BytesMut_new)
    IN  IF r.res = "Err" THEN ErrBinding(r.err)
        ELSE LET params == String_from_utf8(r.out)
             IN  IF ~params.ok THEN ErrBinding("Utf8EncodingError")
                 ELSE OkBinding(SomeOpt(BoxDyn_sql_type(value)), NoneOpt,
                                SingleBind(params.text))

(* ------------------------------ the values ----------------------------- *)

Some(v) == [k |-> "Option", opt |-> <<v>>]

None == [k |-> "Option", opt |-> <<>>]

Variant(v) == [k |-> "Variant", boxed |-> v]

Object(x) == [k |-> "Object", inner |-> x]

Integer(ty, bits) == [k |-> "int", ty |-> ty, bits |-> bits]

Custom(tag, emits, ret, hint) ==
    [k |-> "Custom", tag |-> tag, emits |-> emits, ret |-> ret, hint |-> hint]

JStr(chars) == [t |-> "str", chars |-> chars]

JU8(n) == [t |-> "u8", n |-> n]

JMap(entries) == [t |-> "map", entries |-> entries]

\* serializable values: scalars, maps that serialize, maps with a rejected key
ObjectInners ==
    { [t |-> "unit"], [t |-> "bool", b |-> TRUE], JU8(7), JStr(<<97, 34, 233>>),
      JMap(<<>>),
      JMap(<< <<JStr(<<97>>), JU8(1)>>, <<JU8(2), JStr(<<98>>)>> >>),
      JMap(<< <<[t |-> "unit"], JU8(1)>> >>),
      JMap(<< <<JStr(<<97>>), JU8(1)>>, <<JMap(<<>>), JU8(2)>> >>) }

\* implementers outside the crate: invalid UTF-8, a truncated sequence, an
\* overlong encoding, absence after a write, failures, a hint of their own
Customs ==
    { Custom("Text", <<255>>, "Some", ""),
      Custom("Text", <<104, 195>>, "Some", ""),
      Custom("Text", <<192, 128>>, "Some", ""),
      Custom("Text", <<195, 169>>, "Some", "utf8"),
      Custom("Real", <<49, 46, 53>>, "Some", ""),
      Custom("Text", <<255>>, "None", ""),
      Custom("Fixed", <<49>>, "WrongType", ""),
      Custom("Text", <<>>, "Utf8EncodingError", "hex") }

Texts ==
    { [k |-> "String", s |-> <<>>],
      [k |-> "String", s |-> <<104, 101, 108, 108, 111>>],
      [k |-> "str", s |-> <<233, 8364, 128512>>],
      [k |-> "char", c |-> 65],
      [k |-> "char", c |-> 8364] }

\* bit patterns of an integer kind: every 8-bit value; for the wider kinds the
\* extremes, the values around zero and patterns with many digits
IntBits(ty) ==
    LET n == Width(ty)
    IN  IF n = 1 THEN {<<b>> : b \in 0..255}
        ELSE {<<top>> \o Fill(n - 1, f) : top \in {0, 1, 127, 128, 255}, f \in {0, 154, 255}}
             \cup {Fill(n - 1, 0) \o <<low>> : low \in {1, 9, 10, 99, 100}}
             \cup {Fill(n - 1, 255) \o <<low>> : low \in {0, 156, 246}}

Ints == UNION {{Integer(ty, bits) : bits \in IntBits(ty)} : ty \in IntKinds}

DateTime(k, y, mo, h, s, ns, off) ==
    [k |-> k, year |-> y, month |-> mo, day |-> 5, hour |-> h, minute |-> 7,
     second |-> s, nano |-> ns, offset |-> off]

\* offsets from UTC a kind can carry, in seconds
Offsets(k) ==
    IF k = "DateTimeFixedOffset" THEN {0, 19800, -34200}
    ELSE IF k = "DateTimeLocal" THEN {3600}
    ELSE {0}

Dates ==
    { DateTime(k, y, mo, h, s, ns, off) :
        k \in DateKinds, y \in {1, 2024, 9999}, mo \in {3, 12}, h \in {0, 23},
        s \in {0, 59}, ns \in {0, 4000000, 999999999}, off \in {0, 3600, 19800, -34200} }

DateValues == {d \in Dates : d.offset \in Offsets(d.k)}

\* one more level of the wrappers around the values of vs
Wrap(vs) ==
    vs \cup {None}
       \cup {Some(v) : v \in vs} \cup {Variant(v) : v \in vs}
       \cup {[k |-> w, boxed |-> v] : w \in {"Box", "Ref"}, v \in vs}

RECURSIVE Wrapped(_, _)
Wrapped(vs, depth) == IF depth = 0 THEN vs ELSE Wrap(Wrapped(vs, depth - 1))

CoreValues ==
    Texts \cup Customs \cup {Object(x) : x \in ObjectInners}
          \cup {Integer("i32", <<255, 255, 255, 214>>), Integer("u64", Fill(8, 255))}
          \cup {DateTime("NaiveDateTime", 2024, 3, 1, 2, 4000000, 0)}

\* the values the encoders are applied to
EncValues == Wrapped(CoreValues, MaxDepth) \cup Ints \cup DateValues

\* the values handed to the assembler
AsmCore ==
    { [k |-> "String", s |-> <<>>],
      [k |-> "str", s |-> <<104, 105, 8364>>],
      Integer("i8", <<128>>),
      Object(JMap(<< <<JStr(<<97>>), JU8(1)>> >>)),
      Object(JMap(<< <<JStr(<<97>>), JU8(1)>>, <<[t |-> "unit"], JU8(2)>> >>)),
      Custom("Text", <<104, 195>>, "Some", ""),
      Custom("Text", <<195, 169>>, "Some", "utf8"),
      Custom("Fixed", <<49>>, "WrongType", "") }

AsmValues == Wrapped(AsmCore, AsmDepth)

\* contents of the buffer an encoder is handed
Prefixes == {<<>>, <<120, 61>>}

(* ------------------------------ the state ------------------------------ *)

VARIABLES
    pc,       \* assembler call p: the statement of try_from it is about to run
    value,    \* assembler call p: its argument
    buffer,   \* assembler call p: its local buffer, <<>> while there is none
    params,   \* assembler call p: the decoded text, <<>> while there is none
    result,   \* assembler call p: what try_from returned, <<>> before it returns
    ev,       \* encoder: the value the trait methods are called on
    eout0,    \* encoder: the buffer before to_sql
    eout,     \* encoder: the buffer now
    eret,     \* encoder: what to_sql returned, <<>> before the call
    etype,    \* encoder: what sql_type returned, <<>> before the call
    efmt,     \* encoder: what encode_format returned, <<>> before the call
    ebind     \* encoder: what try_from returned, <<>> before the call

asmVars == <<pc, value, buffer, params, result>>

encVars == <<ev, eout0, eout, eret, etype, efmt, ebind>>

vars == <<pc, value, buffer, params, result, ev, eout0, eout, eret, etype, efmt, ebind>>

Tasks == {1, 2}

(* ---------------- two calls of try_from, statement by statement -------- *)

\* one buffer behind every call (a buffer kept in a static and reused)
StoreBufferShared(bufs, p, bytes) == [q \in DOMAIN bufs |-> <<bytes>>]

\* `let mut buffer`: the buffer is a local of the call that made it
StoreBuffer(bufs, p, bytes) == [bufs EXCEPT ![p] = <<bytes>>]

AsmInit ==
    /\ pc = [p \in Tasks |-> "new"]
    /\ value \in [Tasks -> AsmValues]
    /\ buffer = [p \in Tasks |-> <<>>]
    /\ params = [p \in Tasks |-> <<>>]
    /\ result = [p \in Tasks |-> <<>>]

EncIdle ==
    /\ ev = None
    /\ eout0 = <<>>
    /\ eout = <<>>
    /\ eret = <<>>
    /\ etype = <<>>
    /\ efmt = <<>>
    /\ ebind = <<>>

Init == AsmInit /\ EncIdle

\* let mut buffer = BytesMut::new();
Allocate(p) ==
    /\ pc[p] = "new"
    /\ buffer' = StoreBuffer(buffer, p, BytesMut_new)
    /\ pc' = [pc EXCEPT ![p] = "to_sql"]
    /\ UNCHANGED <<value, params, result>>

\* value.to_sql(&mut buffer)?;
ToSqlStep(p) ==
    /\ pc[p] = "to_sql"
    /\ LET r == BoxDyn_to_sql(value[p], buffer[p][1])
       IN  IF r.res = "Err"
           THEN /\ result' = [result EXCEPT ![p] = <<ErrBinding(r.err)>>]
                /\ buffer' = [buffer EXCEPT ![p] = <<>>]
                /\ pc' = [pc EXCEPT ![p] = "done"]
           ELSE /\ buffer' = StoreBuffer(buffer, p, r.out)
                /\ pc' = [pc EXCEPT ![p] = "from_utf8"]
                /\ UNCHANGED result
    /\ UNCHANGED <<value, params>>

\* let buffer = buffer.freeze(); let params = String::from_utf8(buffer.to_vec())?;
FromUtf8Step(p) ==
    /\ pc[p] = "from_utf8"
    /\ LET s == String_from_utf8(buffer[p][1])
       IN  IF ~s.ok
           THEN /\ result' = [result EXCEPT ![p] = <<ErrBinding("Utf8EncodingError")>>]
                /\ buffer' = [buffer EXCEPT ![p] = <<>>]
                /\ pc' = [pc EXCEPT ![p] = "done"]
                /\ UNCHANGED params
           ELSE /\ params' = [params EXCEPT ![p] = <<s.text>>]
                /\ pc' = [pc EXCEPT ![p] = "build"]
                /\ UNCHANGED <<buffer, result>>
    /\ UNCHANGED value

\* Ok(ParameterBinding { type_: Some(value.sql_type()), fmt: None, value: SingleBind(params) })
Build(p) ==
    /\ pc[p] = "build"
    /\ result' = [result EXCEPT ![p] =
                    <<OkBinding(SomeOpt(BoxDyn_sql_type(value[p])), NoneOpt,
                                SingleBind(params[p][1]))>>]
    /\ buffer' = [buffer EXCEPT ![p] = <<>>]
    /\ params' = [params EXCEPT ![p] = <<>>]
    /\ pc' = [pc EXCEPT ![p] = "done"]
    /\ UNCHANGED value

Next ==
    \/ \E p \in Tasks : Allocate(p) /\ UNCHANGED encVars
    \/ \E p \in Tasks : ToSqlStep(p) /\ UNCHANGED encVars
    \/ \E p \in Tasks : FromUtf8Step(p) /\ UNCHANGED encVars
    \/ \E p \in Tasks : Build(p) /\ UNCHANGED encVars

Spec == Init /\ [][Next]_vars

(* ------------- the trait methods and try_from applied to a value ------- *)

AsmIdle ==
    /\ pc = [p \in Tasks |-> "done"]
    /\ value = [p \in Tasks |-> None]
    /\ buffer = [p \in Tasks |-> <<>>]
    /\ params = [p \in Tasks |-> <<>>]
    /\ result = [p \in Tasks |-> <<>>]

EncInit ==
    /\ AsmIdle
    /\ ev \in EncValues
    /\ eout0 \in Prefixes
    /\ eout = eout0
    /\ eret = <<>>
    /\ etype = <<>>
    /\ efmt = <<>>
    /\ ebind = <<>>

CallSqlType ==
    /\ etype = <<>>
    /\ etype' = <<sql_type(ev)>>
    /\ UNCHANGED <<ev, eout0, eout, eret, efmt, ebind>>

CallToSql ==
    /\ eret = <<>>
    /\ LET r == to_sql(ev, eout)
       IN  /\ eout' = r.out
           /\ eret' = <<[res |-> r.res, err |-> r.err]>>
    /\ UNCHANGED <<ev, eout0, etype, efmt, ebind>>

CallEncodeFormat ==
    /\ efmt = <<>>
    /\ efmt' = <<encode_format(ev)>>
    /\ UNCHANGED <<ev, eout0, eout, eret, etype, ebind>>

CallTryFrom ==
    /\ ebind = <<>>
    /\ ebind' = <<try_from(ev)>>
    /\ UNCHANGED <<ev, eout0, eout, eret, etype, efmt>>

EncNext ==
    \/ CallSqlType /\ UNCHANGED asmVars
    \/ CallToSql /\ UNCHANGED asmVars
    \/ CallEncodeFormat /\ UNCHANGED asmVars
    \/ CallTryFrom /\ UNCHANGED asmVars

SpecEnc == EncInit /\ [][EncNext]_vars

(* ------------------------------ the claims ----------------------------- *)

Done(p) == pc[p] = "done" /\ result[p] # <<>>

Wrappers == {"Option", "Variant", "Box", "Ref"}

\* the bytes to_sql appended to the encoder's buffer
Appended == SubSeq(eout, Len(eout0) + 1, Len(eout))

\* C1: a binding that try_from produced has fmt equal to the value's
\* encode_format() when that hint is non-empty, and no fmt when it is empty.
C1_FmtFollowsEncodeFormat ==
    \A p \in Tasks :
        Done(p) /\ result[p][1].ok =>
            result[p][1].fmt = IF encode_format(value[p]) = ""
                               THEN NoneOpt
                               ELSE SomeOpt(encode_format(value[p]))

\* C2: when the value's to_sql reports absence, the binding has type
\* UnknownNull, no fmt, and a value that is not a SingleBind text.
C2_AbsentCarriesNoText ==
    \A p \in Tasks :
        Done(p) /\ to_sql(value[p], BytesMut_new).res = "None" =>
            /\ result[p][1].ok
            /\ result[p][1].type_ = SomeOpt("UnknownNull")
            /\ result[p][1].fmt = NoneOpt
            /\ result[p][1].value.variant # "SingleBind"

\* C3: a failure of the value's to_sql, through any wrappers, is what try_from
\* returns, and bytes that are not valid UTF-8 make it return the UTF-8 error;
\* in both cases no binding is produced.
C3_ErrorsPropagate ==
    \A p \in Tasks :
        Done(p) =>
            LET r == to_sql(value[p], BytesMut_new)
            IN  /\ r.res = "Err" => result[p][1] = ErrBinding(r.err)
                /\ r.res # "Err" /\ ~utf8_valid(r.out) =>
                       result[p][1] = ErrBinding("Utf8EncodingError")

C3_Witness ==
    /\ Done(1) /\ Done(2)
    /\ value[1].k \in Wrappers
    /\ result[1][1] = ErrBinding("SerialisationError")
    /\ to_sql(value[2], BytesMut_new).res = "Some"
    /\ result[2][1] = ErrBinding("Utf8EncodingError")

\* C4: whatever the interleaving of two calls, each call's buffer after to_sql
\* and each call's result are those of the call running alone.
C4_CallsAreIndependent ==
    \A p \in Tasks :
        /\ pc[p] = "to_sql" => buffer[p] = <<BytesMut_new>>
        /\ pc[p] \in {"from_utf8", "build"} =>
               buffer[p] = <<to_sql(value[p], BytesMut_new).out>>
        /\ pc[p] = "done" => result[p] = <<try_from(value[p])>>

C4_Witness ==
    /\ Done(1)
    /\ ~result[1][1].ok
    /\ pc[2] = "from_utf8"
    /\ buffer[2] # <<BytesMut_new>>
    /\ value[1] # value[2]

\* C5 as stated: Some(v) reports v's tag and hint, appends what v appends and
\* always returns "value written".
C5_SomeAlwaysWritten ==
    ev.k = "Option" /\ ev.opt # <<>> =>
        LET v == ev.opt[1]
        IN  /\ etype # <<>> => etype = <<sql_type(v)>>
            /\ efmt # <<>> => efmt = <<encode_format(v)>>
            /\ eret # <<>> => /\ eout = to_sql(v, eout0).out
                              /\ eret[1].res = "Some"

\* C5 amended: Some(v) reports v's tag and hint and appends what v appends; it
\* returns "value written" when v.to_sql does not fail (also when v reports
\* absence) and fails with v's error when v.to_sql fails.
C5_SomeDelegates ==
    ev.k = "Option" /\ ev.opt # <<>> =>
        LET v == ev.opt[1]
            r == to_sql(v, eout0)
        IN  /\ etype # <<>> => etype = <<sql_type(v)>>
            /\ efmt # <<>> => efmt = <<encode_format(v)>>
            /\ eret # <<>> =>
                   /\ eout = r.out
                   /\ eret[1] = IF r.res = "Err"
                                THEN [res |-> "Err", err |-> r.err]
                                ELSE [res |-> "Some", err |-> ""]

C5_Witness ==
    /\ ev.k = "Option" /\ ev.opt # <<>>
    /\ ev.opt[1] = None
    /\ eret # <<>> /\ eret[1].res = "Some"
    /\ etype # <<>> /\ efmt # <<>>

\* C6: None reports tag UnknownNull and the empty (absent) hint; its to_sql
\* returns "value absent" and leaves the buffer as it was.
C6_NoneWritesNothing ==
    ev.k = "Option" /\ ev.opt = <<>> =>
        /\ etype # <<>> => etype = <<"UnknownNull">>
        /\ efmt # <<>> => efmt = <<default_encode>>
        /\ eret # <<>> => eret[1].res = "None" /\ eout = eout0

C6_Witness ==
    /\ ev.k = "Option" /\ ev.opt = <<>>
    /\ eout0 # <<>>
    /\ eret # <<>> /\ etype # <<>> /\ efmt # <<>>

\* C7: Variant(v) reports tag Variant whatever v's tag is; its to_sql appends
\* what v.to_sql appends with the same outcome, and its hint is v's hint.
C7_VariantTagAndDelegation ==
    ev.k = "Variant" =>
        LET r == to_sql(ev.boxed, eout0)
        IN  /\ etype # <<>> => etype = <<"Variant">>
            /\ efmt # <<>> => efmt = <<encode_format(ev.boxed)>>
            /\ eret # <<>> => /\ eout = r.out
                              /\ eret[1] = [res |-> r.res, err |-> r.err]

C7_Witness ==
    /\ ev.k = "Variant"
    /\ sql_type(ev.boxed) = "Fixed"
    /\ etype = <<"Variant">>
    /\ eret # <<>> /\ Appended # <<>>
    /\ efmt # <<>>

\* C8: Object(x) reports tag Object and hint "json" whether or not its to_sql
\* succeeds; when to_sql succeeds it returns "value written" and has appended
\* the JSON text of the whole value.
C8_ObjectTagAndJson ==
    ev.k = "Object" =>
        /\ etype # <<>> => etype = <<"Object">>
        /\ efmt # <<>> => efmt = <<"json">>
        /\ eret # <<>> /\ eret[1].res # "Err" =>
               /\ eret[1].res = "Some"
               /\ serde_json_to_writer(ev.inner).ok
               /\ Appended = serde_json_to_writer(ev.inner).bytes

C8_Witness ==
    /\ ev.k = "Object"
    /\ eret # <<>> /\ eret[1].res = "Err"
    /\ etype = <<"Object">>
    /\ efmt = <<"json">>

AllDigits(text, positions) == \A i \in positions : IsDigit(text[i])

\* YYYY-MM-DD HH:MM:SS.mmm
IsTimestampText(text) ==
    /\ Len(text) = 23
    /\ AllDigits(text, {1, 2, 3, 4, 6, 7, 9, 10, 12, 13, 15, 16, 18, 19, 21, 22, 23})
    /\ text[5] = 45 /\ text[8] = 45
    /\ text[11] = 32
    /\ text[14] = 58 /\ text[17] = 58
    /\ text[20] = 46

\* a space and +HHMM or -HHMM
IsOffsetText(text) ==
    /\ Len(text) = 6
    /\ text[1] = 32
    /\ text[2] \in {43, 45}
    /\ AllDigits(text, {3, 4, 5, 6})

\* C9: a timestamp is written as YYYY-MM-DD HH:MM:SS.mmm, one '.' between the
\* seconds and the three millisecond digits (tags TimestampNtz, TimestampLtz),
\* followed for the fixed-offset and UTC kinds (tag TimestampTz) by a space
\* and the offset as +HHMM or -HHMM.
C9_TimestampText ==
    ev.k \in DateKinds \ {"NaiveDate"} /\ eret # <<>> =>
        /\ eret[1].res = "Some"
        /\ IF ev.k \in {"NaiveDateTime", "DateTimeLocal"}
           THEN IsTimestampText(Appended)
           ELSE /\ Len(Appended) = 29
                /\ IsTimestampText(SubSeq(Appended, 1, 23))
                /\ IsOffsetText(SubSeq(Appended, 24, 29))

\* 10 * n + d on an unsigned bit pattern: the new pattern and the carry out
RECURSIVE MulAdd10(_, _)
MulAdd10(bits, d) ==
    IF bits = <<>> THEN [bits |-> <<>>, carry |-> d]
    ELSE LET n == Len(bits)
             cur == bits[n] * 10 + d
             rec == MulAdd10(SubSeq(bits, 1, n - 1), cur \div 256)
         IN  [bits |-> rec.bits \o <<cur % 256>>, carry |-> rec.carry]

\* the value a decimal text denotes, in width bytes; ok unless it overflows
RECURSIVE ParseDecimal(_, _)
ParseDecimal(digits, width) ==
    IF digits = <<>> THEN [bits |-> Fill(width, 0), ok |-> TRUE]
    ELSE LET n == Len(digits)
             hi == ParseDecimal(SubSeq(digits, 1, n - 1), width)
             m == MulAdd10(hi.bits, digits[n] - 48)
         IN  [bits |-> m.bits, ok |-> hi.ok /\ m.carry = 0]

\* a + b on bit patterns, modulo 2^(8 * width)
RECURSIVE AddBits(_, _, _)
AddBits(a, b, carry) ==
    IF a = <<>> THEN <<>>
    ELSE LET n == Len(a)
             cur == a[n] + b[n] + carry
         IN  AddBits(SubSeq(a, 1, n - 1), SubSeq(b, 1, n - 1), cur \div 256)
             \o <<cur % 256>>

\* text is the canonical decimal string of the value of kind ty with these
\* bits: '-' exactly for a negative value, then digits without a leading zero
\* that denote the value's magnitude
IsCanonicalDecimal(ty, bits, text) ==
    LET negative == Signed(ty) /\ bits[1] >= 128
        digits == IF text # <<>> /\ text[1] = 45 THEN Tail(text) ELSE text
        parsed == ParseDecimal(digits, Len(bits))
    IN  /\ negative <=> (text # <<>> /\ text[1] = 45)
        /\ digits # <<>>
        /\ AllDigits(digits, 1..Len(digits))
        /\ Len(digits) > 1 => digits[1] # 48
        /\ parsed.ok
        /\ IF negative
           THEN ~IsZero(parsed.bits) /\ IsZero(AddBits(parsed.bits, bits, 0))
           ELSE parsed.bits = bits

\* C10: for every integer kind and value, to_sql appends the canonical
\* decimal string and returns "value written", sql_type is Fixed, and
\* try_from gives type Fixed, no fmt and that string as the SingleBind text.
C10_IntegersAreCanonicalDecimal ==
    ev.k = "int" =>
        /\ etype # <<>> => etype = <<"Fixed">>
        /\ eret # <<>> => /\ eret[1].res = "Some"
                          /\ SubSeq(eout, 1, Len(eout0)) = eout0
                          /\ IsCanonicalDecimal(ev.ty, ev.bits, Appended)
        /\ ebind # <<>> =>
               /\ ebind[1].ok
               /\ ebind[1].type_ = SomeOpt("Fixed")
               /\ ebind[1].fmt = NoneOpt
               /\ ebind[1].value.variant = "SingleBind"
               /\ IsCanonicalDecimal(ev.ty, ev.bits, ebind[1].value.text)

C10_Witness ==
    /\ ev = Integer("i64", <<128>> \o Fill(7, 0))
    /\ eret # <<>> /\ Len(Appended) = 20 /\ Appended[1] = 45
    /\ ebind # <<>> /\ ebind[1].ok /\ Len(ebind[1].value.text) = 20
    /\ etype # <<>>

====
